---- MODULE Spec2Model ----
(***************************************************************************)
(* Saturday roster (src/intelbras-t9.py): the staff list, the schedule     *)
(* store (month key -> ISO date -> day record), the considerations store,  *)
(* and the operations of the Streamlit script that change them.            *)
(*                                                                         *)
(* Representation.                                                         *)
(*  - A Python str that the code trims, tests for blankness or compares    *)
(*    as a member name is a sequence of one-character strings, so that     *)
(*    str.strip() is computed and not assumed.  Dictionary keys the code   *)
(*    builds itself (statuses, month keys, ISO dates) are TLA+ strings.    *)
(*  - A Python dict is a function; a missing key is a key outside DOMAIN.  *)
(*  - A JSON value whose type the code inspects is a record                *)
(*    [kind |-> ..., val |-> ...].                                         *)
(*  - Non-ASCII letters of the status labels and messages are written      *)
(*    without their accents.                                               *)
(***************************************************************************)
EXTENDS Integers, Sequences, FiniteSets, TLC

VARIABLES people, schedule, considerations, active_year, active_month,
          uploaded, last_event, runs

vars == <<people, schedule, considerations, active_year, active_month,
          uploaded, last_event, runs>>

(***************************************************************************)
(* Program constants                                                       *)
(***************************************************************************)
STATUSES ==
  << "Atendimento 08:00-14:00",
     "Atendimento 12:00-18:00",
     "Laboratorio",
     "Blip 08:00-14:00",
     "Blip 12:00-18:00",
     "Banco de horas",
     "Ferias" >>

DEFAULT_STATUS == "Atendimento 08:00-14:00"

META_CLOSED_KEY == "__closed__"

CONFIG_EXPORT_VERSION == 3

CONFIG_TYPE == "intelbras_sabados_config"

StatusSet == { STATUSES[i] : i \in 1..Len(STATUSES) }

\* HEADERS = {stt: stt for stt in STATUSES}
HEADERS == [stt \in StatusSet |-> stt]

(***************************************************************************)
(* Python built-ins used by the code                                       *)
(***************************************************************************)
Range(s) == { s[i] : i \in 1..Len(s) }

\* dict helpers: {} , d.get(k, default), d.setdefault(k, v), d[k] = v
EmptyDict == [k \in {} |-> {}]

DictGet(d, k, default) == IF k \in DOMAIN d THEN d[k] ELSE default

SetDefault(d, k, v) == IF k \in DOMAIN d THEN d ELSE [x \in DOMAIN d \cup {k} |-> IF x = k THEN v ELSE d[x]]

PutAlone(d, k, v) == k :> v

Put(d, k, v) == [x \in DOMAIN d \cup {k} |-> IF x = k THEN v ELSE d[x]]

\* str.strip(): drop leading and trailing whitespace
IsSpace(c) == c = " "

RECURSIVE LStrip(_)
LStrip(s) == IF s # <<>> /\ IsSpace(Head(s)) THEN LStrip(Tail(s)) ELSE s

RECURSIVE RStrip(_)
RStrip(s) == IF s # <<>> /\ IsSpace(s[Len(s)]) THEN RStrip(SubSeq(s, 1, Len(s) - 1)) ELSE s

Strip(s) == RStrip(LStrip(s))

\* f"{n:02d}" and f"{n:04d}" for n >= 0
RECURSIVE ZeroPad(_, _)
ZeroPad(str, missing) == IF missing <= 0 THEN str ELSE ZeroPad("0" \o str, missing - 1)

Digits(n) == IF n < 10 THEN 1 ELSE IF n < 100 THEN 2 ELSE IF n < 1000 THEN 3 ELSE 4

Fmt(n, width) == ZeroPad(ToString(n), width - Digits(n))

\* The years and months the model's inputs range over.  The three tables
\* below hold, for these, the values of the formatting and calendar
\* functions, evaluated once; the operators fall back on the computation
\* for any other argument.
CalendarYears == { 2024 }

CalendarMonths == 0..13

\* month_key = f"{year:04d}-{month:02d}"
FormatMonthKey(year, month) == Fmt(year, 4) \o "-" \o Fmt(month, 2)

MonthKeyTable == [y \in CalendarYears, m \in CalendarMonths |-> FormatMonthKey(y, m)]

MonthKey(year, month) ==
  IF <<year, month>> \in DOMAIN MonthKeyTable THEN MonthKeyTable[year, month]
  ELSE FormatMonthKey(year, month)

(***************************************************************************)
(* Calendar: calendar.monthrange, date.weekday, get_saturdays, iso         *)
(***************************************************************************)
IsLeap(year) == (year % 4 = 0) /\ ((year % 100 # 0) \/ (year % 400 = 0))

\* calendar.monthrange raises IllegalMonthError unless 1 <= month <= 12
ValidMonth(month) == month \in 1..12

DaysInMonth(year, month) ==
  IF month = 2 THEN (IF IsLeap(year) THEN 29 ELSE 28)
  ELSE IF month \in {4, 6, 9, 11} THEN 30 ELSE 31

\* date.weekday(): Monday = 0 ... Saturday = 5 (Zeller's congruence, where
\* 0 is Saturday, shifted to Python's numbering)
Weekday(year, month, day) ==
  LET mm == IF month < 3 THEN month + 12 ELSE month
      yy == IF month < 3 THEN year - 1 ELSE year
      K  == yy % 100
      J  == yy \div 100
      h  == (day + ((13 * (mm + 1)) \div 5) + K + (K \div 4) + (J \div 4) + 5 * J) % 7
  IN (h + 5) % 7

\* iso(d) = d.isoformat()
FormatIso(year, month, day) == Fmt(year, 4) \o "-" \o Fmt(month, 2) \o "-" \o Fmt(day, 2)

IsoTable == [y \in CalendarYears, m \in CalendarMonths, d \in 1..31 |-> FormatIso(y, m, d)]

iso(d) ==
  IF <<d.year, d.month, d.day>> \in DOMAIN IsoTable THEN IsoTable[d.year, d.month, d.day]
  ELSE FormatIso(d.year, d.month, d.day)

RECURSIVE SaturdaysFrom(_, _, _, _)
SaturdaysFrom(year, month, d, last_day) ==
  IF d > last_day THEN <<>>
  ELSE (IF Weekday(year, month, d) = 5
          THEN << [year |-> year, month |-> month, day |-> d] >>
          ELSE <<>>)
       \o SaturdaysFrom(year, month, d + 1, last_day)

SaturdaysTable ==
  [y \in CalendarYears, m \in 1..12 |-> SaturdaysFrom(y, m, 1, DaysInMonth(y, m))]

\* lines 70-77; defined for a valid month, the caller tests ValidMonth for
\* the raise
get_saturdays(year, month) ==
  IF <<year, month>> \in DOMAIN SaturdaysTable THEN SaturdaysTable[year, month]
  ELSE SaturdaysFrom(year, month, 1, DaysInMonth(year, month))

(***************************************************************************)
(* Day records                                                             *)
(***************************************************************************)
\* [p for p in lst if p in people]
KeepMembers(lst, ppl) == SelectSeq(lst, LAMBDA p : p \in Range(ppl))

\* for stt in STATUSES: d.setdefault(stt, [])
WithStatuses(d) == [k \in DOMAIN d \cup StatusSet |-> IF k \in DOMAIN d THEN d[k] ELSE <<>>]

\* {stt: [] for stt in STATUSES}
EmptyStatuses == [stt \in StatusSet |-> <<>>]

FreshDayNobody(ppl) ==
  [k \in StatusSet \cup {META_CLOSED_KEY} |-> IF k = META_CLOSED_KEY THEN FALSE ELSE <<>>]

\* lines 101-103: a fresh open day, everybody on the default status
FreshDay(ppl) ==
  [k \in StatusSet \cup {META_CLOSED_KEY} |->
     IF k = META_CLOSED_KEY THEN FALSE
     ELSE IF k = DEFAULT_STATUS THEN ppl ELSE <<>>]

\* assigned.extend(...) over STATUSES in order (lines 116-119)
RECURSIVE AssignedFrom(_, _)
AssignedFrom(day, i) ==
  IF i > Len(STATUSES) THEN <<>> ELSE day[STATUSES[i]] \o AssignedFrom(day, i + 1)

\* lines 105-123: an existing day record
ReconcileDayAppendAll(day, ppl) ==
  LET d1 == WithStatuses(SetDefault(day, META_CLOSED_KEY, FALSE))
      filtered == [k \in DOMAIN d1 |-> IF k \in StatusSet THEN KeepMembers(d1[k], ppl) ELSE d1[k]]
  IN IF d1[META_CLOSED_KEY] = TRUE THEN filtered
     ELSE [filtered EXCEPT ![DEFAULT_STATUS] = @ \o ppl]

ReconcileDayMissingFirst(day, ppl) ==
  LET d1 == WithStatuses(SetDefault(day, META_CLOSED_KEY, FALSE))
      filtered == [k \in DOMAIN d1 |-> IF k \in StatusSet THEN KeepMembers(d1[k], ppl) ELSE d1[k]]
      assigned == AssignedFrom(filtered, 1)
      missing == SelectSeq(ppl, LAMBDA p : p \notin Range(assigned))
  IN IF d1[META_CLOSED_KEY] = TRUE THEN filtered
     ELSE [filtered EXCEPT ![DEFAULT_STATUS] = missing \o @]

ReconcileDayReopens(day, ppl) ==
  LET d1 == WithStatuses(SetDefault(day, META_CLOSED_KEY, FALSE))
      filtered == [k \in DOMAIN d1 |-> IF k \in StatusSet THEN KeepMembers(d1[k], ppl) ELSE FALSE]
      assigned == AssignedFrom(filtered, 1)
      missing == SelectSeq(ppl, LAMBDA p : p \notin Range(assigned))
  IN [filtered EXCEPT ![DEFAULT_STATUS] = @ \o missing]

ReconcileDay(day, ppl) ==
  LET d1 == WithStatuses(SetDefault(day, META_CLOSED_KEY, FALSE))
      filtered == [k \in DOMAIN d1 |-> IF k \in StatusSet THEN KeepMembers(d1[k], ppl) ELSE d1[k]]
      assigned == AssignedFrom(filtered, 1)
      missing == SelectSeq(ppl, LAMBDA p : p \notin Range(assigned))
  IN IF d1[META_CLOSED_KEY] = TRUE THEN filtered
     ELSE [filtered EXCEPT ![DEFAULT_STATUS] = @ \o missing]

ensure_month_scheduleEveryMonth(sched, year, month, ppl) ==
  LET month_key == MonthKey(year, month)
      s0 == IF month_key \in DOMAIN sched THEN sched ELSE Put(sched, month_key, EmptyDict)
  IN IF ~ValidMonth(month)
       THEN [raised |-> TRUE, schedule |-> s0]
       ELSE LET sats == get_saturdays(year, month)
                sats_iso == { iso(sats[i]) : i \in 1..Len(sats) }
                old == s0[month_key]
                new == [s \in sats_iso |->
                          IF s \notin DOMAIN old THEN FreshDay(ppl)
                          ELSE ReconcileDay(old[s], ppl)]
            IN [raised |-> FALSE,
                schedule |-> [mk \in DOMAIN s0 |->
                                IF mk = month_key THEN new
                                ELSE [d \in DOMAIN s0[mk] |-> ReconcileDay(s0[mk][d], ppl)]]]

\* lines 85-125.  The month key is inserted (line 88) before get_saturdays
\* can raise (line 90), and the dict is changed in place, so the insertion
\* outlives the exception.
ensure_month_schedule(sched, year, month, ppl) ==
  LET month_key == MonthKey(year, month)
      s0 == IF month_key \in DOMAIN sched THEN sched ELSE Put(sched, month_key, EmptyDict)
  IN IF ~ValidMonth(month)
       THEN [raised |-> TRUE, schedule |-> s0]
       ELSE LET sats == get_saturdays(year, month)
                sats_iso == { iso(sats[i]) : i \in 1..Len(sats) }
                old == s0[month_key]
                new == [s \in sats_iso |->
                          IF s \notin DOMAIN old THEN FreshDay(ppl)
                          ELSE ReconcileDay(old[s], ppl)]
            IN [raised |-> FALSE, schedule |-> Put(s0, month_key, new)]

\* lines 128-130
get_month_schedule(sched, year, month) == DictGet(sched, MonthKey(year, month), EmptyDict)

\* lines 144-151: the statuses from index i on, with the names seen so far
DedupListKeepRepeats(lst, ppl, seen) == KeepMembers(lst, ppl)

RECURSIVE DedupList(_, _, _)
DedupList(lst, ppl, seen) ==
  IF lst = <<>> THEN <<>>
  ELSE IF Head(lst) \in Range(ppl) /\ Head(lst) \notin seen
         THEN <<Head(lst)>> \o DedupList(Tail(lst), ppl, seen \cup {Head(lst)})
         ELSE DedupList(Tail(lst), ppl, seen)

RECURSIVE SanitizeFrom(_, _, _, _)
SanitizeFrom(day, ppl, i, seen) ==
  IF i > Len(STATUSES) THEN [day |-> day, seen |-> seen]
  ELSE LET new_list == DedupList(day[STATUSES[i]], ppl, seen)
       IN SanitizeFrom([day EXCEPT ![STATUSES[i]] = new_list], ppl, i + 1,
                       seen \cup Range(new_list))

\* lines 133-157
sanitize_dayKeepClosed(day_map, ppl) ==
  LET d1 == WithStatuses(SetDefault(day_map, META_CLOSED_KEY, FALSE))
      r == SanitizeFrom(d1, ppl, 1, {})
      missing == SelectSeq(ppl, LAMBDA p : p \notin r.seen)
  IN IF d1[META_CLOSED_KEY] = TRUE THEN d1
     ELSE [r.day EXCEPT ![DEFAULT_STATUS] = @ \o missing]

sanitize_dayForgetsMissing(day_map, ppl) ==
  LET d1 == WithStatuses(SetDefault(day_map, META_CLOSED_KEY, FALSE))
      r == SanitizeFrom(d1, ppl, 1, {})
  IN IF d1[META_CLOSED_KEY] = TRUE
       THEN [k \in DOMAIN d1 |-> IF k \in StatusSet THEN <<>> ELSE d1[k]]
       ELSE r.day

sanitize_day(day_map, ppl) ==
  LET d1 == WithStatuses(SetDefault(day_map, META_CLOSED_KEY, FALSE))
      r == SanitizeFrom(d1, ppl, 1, {})
      missing == SelectSeq(ppl, LAMBDA p : p \notin r.seen)
  IN IF d1[META_CLOSED_KEY] = TRUE
       THEN [k \in DOMAIN d1 |-> IF k \in StatusSet THEN <<>> ELSE d1[k]]
       ELSE [r.day EXCEPT ![DEFAULT_STATUS] = @ \o missing]

(***************************************************************************)
(* JSON values whose type the code inspects                                *)
(***************************************************************************)
JNull == [kind |-> "null", val |-> FALSE]

JStr(s) == [kind |-> "str", val |-> s]

JInt(n) == [kind |-> "int", val |-> n]

JBool(b) == [kind |-> "bool", val |-> b]

JList(l) == [kind |-> "list", val |-> l]

JDict(d) == [kind |-> "dict", val |-> d]

\* isinstance(x, str) and x.strip()
IsNonBlankStr(x) == x.kind = "str" /\ Strip(x.val) # <<>>

\* isinstance(x, int): bool is a subclass of int in Python, so True and False
\* (JSON true and false) are instances of int
IsInstanceInt(x) == x.kind \in {"int", "bool"}

\* pkg.get(key) and pkg.get(key, default) on a JSON object
JGet(obj, key, default) == DictGet(obj.val, key, default)

\* a list of tagged items -> the list of their values, and back
Vals(items) == [i \in 1..Len(items) |-> items[i].val]

StrItems(names) == [i \in 1..Len(names) |-> JStr(names[i])]

(***************************************************************************)
(* Drag-and-drop board <-> day record                                      *)
(***************************************************************************)
\* lines 160-161
day_map_to_sortables(day_map) ==
  [i \in 1..Len(STATUSES) |->
     [header |-> JStr(HEADERS[STATUSES[i]]),
      items |-> StrItems(DictGet(day_map, STATUSES[i], <<>>))]]

\* header_to_status = {HEADERS[stt]: stt for stt in STATUSES}; .get(header)
\* gives None for a header that is no key of it
HeaderMatches(header) == header.kind = "str" /\ \E stt \in StatusSet : HEADERS[stt] = header.val

header_to_status(header) == CHOOSE stt \in StatusSet : HEADERS[stt] = header.val

\* lines 164-175: a later column with the same header overwrites an earlier one
RECURSIVE ColumnsInto(_, _)
ColumnsInto(out, cols) ==
  IF cols = <<>> THEN out
  ELSE LET col == Head(cols)
           header == DictGet(col, "header", JNull)
           items == DictGet(col, "items", <<>>)
           kept == Vals(SelectSeq(items, IsNonBlankStr))
       IN IF HeaderMatches(header)
            THEN ColumnsInto([out EXCEPT ![header_to_status(header)] = kept], Tail(cols))
            ELSE ColumnsInto(out, Tail(cols))

sortables_to_day_map(sorted_items) == ColumnsInto(EmptyStatuses, sorted_items)

(***************************************************************************)
(* Month summary (lines 179-202)                                           *)
(***************************************************************************)
\* the code points of the characters the names of the model are made of
CodePoint(c) ==
  CASE c = " " -> 32
    [] c = "a" -> 97
    [] c = "b" -> 98
    [] c = "c" -> 99
    [] c = "x" -> 120
    [] c = "y" -> 121

\* Python's s < t on str
RECURSIVE StrLess(_, _)
StrLess(s, t) ==
  IF t = <<>> THEN FALSE
  ELSE IF s = <<>> THEN TRUE
  ELSE IF Head(s) # Head(t) THEN CodePoint(Head(s)) < CodePoint(Head(t))
  ELSE StrLess(Tail(s), Tail(t))

\* the keys of {p: ... for p in people}, in insertion order
RECURSIVE CountKeys(_, _)
CountKeys(ppl, seen) ==
  IF ppl = <<>> THEN <<>>
  ELSE IF Head(ppl) \in seen THEN CountKeys(Tail(ppl), seen)
  ELSE <<Head(ppl)>> \o CountKeys(Tail(ppl), seen \cup {Head(ppl)})

\* lines 192-194 for one name: the times the list names it
Occurrences(lst, name) == Len(SelectSeq(lst, LAMBDA n : n = name))

DayCountClosedToo(month_schedule, sat_iso, name, stt) ==
  IF sat_iso \notin DOMAIN month_schedule THEN 0
  ELSE Occurrences(DictGet(month_schedule[sat_iso], stt, <<>>), name)

\* lines 184-194: what one date adds to counts[name][stt]
DayCount(month_schedule, sat_iso, name, stt) ==
  IF sat_iso \notin DOMAIN month_schedule THEN 0
  ELSE IF DictGet(month_schedule[sat_iso], META_CLOSED_KEY, FALSE) = TRUE THEN 0
  ELSE Occurrences(DictGet(month_schedule[sat_iso], stt, <<>>), name)

\* lines 182-194: the loop over the saturdays from index i on
RECURSIVE CountFrom(_, _, _, _, _)
CountFrom(month_schedule, saturdays, i, name, stt) ==
  IF i > Len(saturdays) THEN 0
  ELSE DayCount(month_schedule, iso(saturdays[i]), name, stt)
       + CountFrom(month_schedule, saturdays, i + 1, name, stt)

\* line 200: df[STATUSES].sum(axis=1)
RECURSIVE TotalFrom(_, _)
TotalFrom(counts, i) ==
  IF i > Len(STATUSES) THEN 0 ELSE counts[STATUSES[i]] + TotalFrom(counts, i + 1)

Total(row) == TotalFrom(row.counts, 1)

RowBeforeAscending(r1, r2) ==
  \/ Total(r1) < Total(r2)
  \/ Total(r1) = Total(r2) /\ StrLess(r1.Colaborador, r2.Colaborador)

\* line 201: sort_values(["Total", "Colaborador"], ascending=[False, True])
RowBefore(r1, r2) ==
  \/ Total(r1) > Total(r2)
  \/ Total(r1) = Total(r2) /\ StrLess(r1.Colaborador, r2.Colaborador)

RECURSIVE InsertRow(_, _)
InsertRow(row, sorted) ==
  IF sorted = <<>> THEN <<row>>
  ELSE IF RowBefore(row, Head(sorted)) THEN <<row>> \o sorted
  ELSE <<Head(sorted)>> \o InsertRow(row, Tail(sorted))

RECURSIVE SortRows(_)
SortRows(rows) ==
  IF rows = <<>> THEN <<>> ELSE InsertRow(Head(rows), SortRows(Tail(rows)))

\* lines 179-202: the rows of the data frame, the Total column dropped
build_month_summary(month_schedule, saturdays, ppl) ==
  LET keys == CountKeys(ppl, {})
      rows == [i \in 1..Len(keys) |->
                 [Colaborador |-> keys[i],
                  counts |-> [stt \in StatusSet |->
                                CountFrom(month_schedule, saturdays, 1, keys[i], stt)]]]
  IN SortRows(rows)

(***************************************************************************)
(* Considerations (lines 205-219, 764-795).  The store is kept as its      *)
(* "months" mapping: month key -> list of notes                            *)
(***************************************************************************)
\* lines 213-219: .get(month_key, []) hands back a new list for a month
\* without key and stores nothing for it
get_month_considerations(cons_months, month_key) == DictGet(cons_months, month_key, <<>>)

\* lines 768-776: the form is submitted with cons_text; the new note gets
\* the identifier uuid.  Line 774 indexes the month's list, which raises
\* KeyError when the month has no key in the store.
add_consideration(cons_months, month_key, cons_text, uuid) ==
  LET txt == Strip(cons_text)
  IN IF txt = <<>>
       THEN [outcome |-> "warning", considerations |-> cons_months]
     ELSE IF month_key \notin DOMAIN cons_months
       THEN [outcome |-> "KeyError", considerations |-> cons_months]
     ELSE [outcome |-> "stored",
           considerations |-> [cons_months EXCEPT ![month_key] =
                                 Append(@, [id |-> uuid, text |-> txt])]]

\* lines 789-795: the "Remover" button of the note with the identifier
remove_consideration(cons_months, month_key, id) ==
  [cons_months EXCEPT ![month_key] = SelectSeq(@, LAMBDA x : x.id # id)]

(***************************************************************************)
(* Export / import                                                         *)
(***************************************************************************)
\* datetime.now().isoformat(timespec="seconds"): read by no operation
ExportedAt == "2024-03-02T10:00:00"

\* lines 342-350
build_export_package(ppl, schedule_months, considerations_months) ==
  JDict([type |-> JStr(CONFIG_TYPE),
         version |-> JInt(CONFIG_EXPORT_VERSION),
         exported_at |-> JStr(ExportedAt),
         employees |-> JList(StrItems(ppl)),
         months |-> JDict(schedule_months),
         considerations |-> JDict(considerations_months)])

\* lines 353-372
validate_import_package(pkg) ==
  IF pkg.kind # "dict" THEN [ok |-> FALSE, msg |-> "Arquivo invalido (nao e um JSON objeto)."]
  ELSE IF JGet(pkg, "type", JNull) # JStr(CONFIG_TYPE)
    THEN [ok |-> FALSE, msg |-> "Tipo de arquivo nao reconhecido."]
  ELSE IF ~IsInstanceInt(JGet(pkg, "version", JNull))
    THEN [ok |-> FALSE, msg |-> "Versao ausente/ invalida."]
  ELSE LET employees == JGet(pkg, "employees", JNull)
           months == JGet(pkg, "months", JNull)
           cons == JGet(pkg, "considerations", JDict(EmptyDict))
       IN IF employees.kind # "list"
             \/ ~(\A i \in 1..Len(employees.val) : IsNonBlankStr(employees.val[i]))
            THEN [ok |-> FALSE, msg |-> "Campo 'employees' invalido."]
          ELSE IF months.kind # "dict"
            THEN [ok |-> FALSE, msg |-> "Campo 'months' invalido."]
          ELSE IF cons.kind # "null" /\ cons.kind # "dict"
            THEN [ok |-> FALSE, msg |-> "Campo 'considerations' invalido."]
          ELSE [ok |-> TRUE, msg |-> "OK"]

\* lines 377-382: first-seen order, no name twice
DedupKeepAll(lst, seen) == lst

RECURSIVE Dedup(_, _)
Dedup(lst, seen) ==
  IF lst = <<>> THEN <<>>
  ELSE IF Head(lst) \in seen THEN Dedup(Tail(lst), seen)
       ELSE <<Head(lst)>> \o Dedup(Tail(lst), seen \cup {Head(lst)})

\* lines 375-398: what the import stores as staff list, schedule store and
\* considerations store (session state and the three files alike)
apply_import_packageReconciled(pkg) ==
  LET employees == JGet(pkg, "employees", JList(<<>>))
      ppl == Dedup([i \in 1..Len(SelectSeq(employees.val, IsNonBlankStr)) |->
                      Strip(SelectSeq(employees.val, IsNonBlankStr)[i].val)], {})
      months == JGet(pkg, "months", JDict(EmptyDict))
      cons_months == JGet(pkg, "considerations", JDict(EmptyDict))
  IN [people |-> ppl,
      schedule |-> IF months.kind = "dict"
                     THEN [mk \in DOMAIN months.val |->
                             [d \in DOMAIN months.val[mk] |-> sanitize_day(months.val[mk][d], ppl)]]
                     ELSE EmptyDict,
      considerations |-> IF cons_months.kind = "dict" THEN cons_months.val ELSE EmptyDict]

apply_import_package(pkg) ==
  LET employees == JGet(pkg, "employees", JList(<<>>)).val
      kept == SelectSeq(employees, IsNonBlankStr)
      ppl == [i \in 1..Len(kept) |-> Strip(kept[i].val)]
      months == JGet(pkg, "months", JDict(EmptyDict))
      cons_months == JGet(pkg, "considerations", JDict(EmptyDict))
  IN [people |-> Dedup(ppl, {}),
      schedule |-> IF months.kind = "dict" THEN months.val ELSE EmptyDict,
      considerations |-> IF cons_months.kind = "dict" THEN cons_months.val ELSE EmptyDict]

(***************************************************************************)
(* One run of the script, below the sidebar (lines 630-719)                *)
(***************************************************************************)
\* what sort_items hands back for a day's board: the board it was given
\* (default=items, nobody dragged anything) or an arrangement of its own
Untouched == [kind |-> "untouched", val |-> <<>>]

Arranged(cols) == [kind |-> "arranged", val |-> cols]

\* the widget event of a run: the Saturday it belongs to, whether its
\* checkbox was flipped, and what its board returned
NoEvent == [date |-> "", toggle |-> FALSE, board |-> Untouched]

RenderDayTrustBoard(stored, ppl, toggle, board) ==
  LET day_map == sanitize_day(stored, ppl)
      is_closed_now == day_map[META_CLOSED_KEY]
      toggled == IF toggle
                   THEN sanitize_day(Put(day_map, META_CLOSED_KEY, ~is_closed_now), ppl)
                   ELSE day_map
  IN IF toggled[META_CLOSED_KEY] = TRUE THEN toggled
     ELSE LET sorted_board == IF board.kind = "untouched"
                                THEN day_map_to_sortables(toggled)
                                ELSE board.val
          IN IF sorted_board # <<>>
               THEN Put(sortables_to_day_map(sorted_board), META_CLOSED_KEY, FALSE)
               ELSE toggled

\* lines 681-713: one Saturday of the render loop
RenderDay(stored, ppl, toggle, board) ==
  LET day_map == sanitize_day(stored, ppl)
      is_closed_now == day_map[META_CLOSED_KEY]
      toggled == IF toggle
                   THEN sanitize_day(Put(day_map, META_CLOSED_KEY, ~is_closed_now), ppl)
                   ELSE day_map
  IN IF toggled[META_CLOSED_KEY] = TRUE THEN toggled
     ELSE LET sorted_board == IF board.kind = "untouched"
                                THEN day_map_to_sortables(toggled)
                                ELSE board.val
          IN IF sorted_board # <<>>
               THEN sanitize_day(Put(sortables_to_day_map(sorted_board), META_CLOSED_KEY, FALSE), ppl)
               ELSE toggled

\* lines 638-719: reconcile the active month, stop when there is nothing to
\* render, else run the render loop over its Saturdays and save.  The notes
\* of the month (lines 662-664) are read and left as they are.
Main(ppl, sched, year, month, ev) ==
  LET month_key == MonthKey(year, month)
      reconciled == ensure_month_schedule(sched, year, month, ppl).schedule
      month_schedule == get_month_schedule(reconciled, year, month)
      saturdays == get_saturdays(year, month)
      sats_iso == { iso(saturdays[i]) : i \in 1..Len(saturdays) }
  IN IF saturdays = <<>> \/ ppl = <<>> THEN reconciled
     ELSE Put(reconciled, month_key,
              [s \in DOMAIN month_schedule \cup sats_iso |->
                 IF s \in sats_iso
                   THEN RenderDay(DictGet(month_schedule, s, EmptyStatuses), ppl,
                                  ev.toggle /\ ev.date = s,
                                  IF ev.date = s THEN ev.board ELSE Untouched)
                   ELSE month_schedule[s]])

\* line 735: the summary of a run that got past the stops of lines 653-659,
\* built from the month record the run saved (line 718)
summary_df(ppl, sched, year, month) ==
  build_month_summary(get_month_schedule(sched, year, month), get_saturdays(year, month), ppl)

(***************************************************************************)
(* Inputs of the model                                                     *)
(***************************************************************************)
MaxRuns == 4

MaxTouchedDays == 1

A == <<"a">>

B == <<"b">>

C == <<"c">>

SeqsUpTo(S, n) == UNION { [1..k -> S] : k \in 0..n }

\* what the user types into "Adicionar colaborador"
NewPersonInputs == { <<" ">>, A, <<" ", "a">>, B }

\* the year and month number inputs
YearInputs == CalendarYears

MonthInputs == { 2, 3 }

\* the Saturdays whose checkbox or board the user touches: the first ones
TouchedDates(year, month) ==
  LET sats == get_saturdays(year, month)
  IN { iso(sats[i]) : i \in 1..(IF Len(sats) < MaxTouchedDays THEN Len(sats) ELSE MaxTouchedDays) }

\* boards the user's dragging can return
Column(header, items) == [header |-> header, items |-> items]

AppColumns ==
  { Column(JStr(h), items) : h \in {DEFAULT_STATUS, "Laboratorio"},
                             items \in SeqsUpTo({JStr(A), JStr(B)}, 1) }

AppBoards == SeqsUpTo(AppColumns, 1)

\* a day record with the given closed flag and two of the status lists
DayOf(closed, on_default, on_lab) ==
  [k \in StatusSet \cup {META_CLOSED_KEY} |->
     IF k = META_CLOSED_KEY THEN closed
     ELSE IF k = DEFAULT_STATUS THEN on_default
     ELSE IF k = "Laboratorio" THEN on_lab ELSE <<>>]

\* a note of the considerations store
Note(id, text) == [id |-> id, text |-> text]

\* files the user uploads
ImportedMonths ==
  ("2024-02" :> (("2024-02-03" :> DayOf(FALSE, <<A, A>>, <<A, C>>))
                 @@ ("2024-02-10" :> DayOf(TRUE, <<A>>, <<C>>))))
  @@ ("2024-01" :> ("2024-01-06" :> DayOf(FALSE, <<B>>, <<>>)))

ImportedNotes == ("2024-02" :> << Note("n1", <<"x">>) >>)

PackageOf(type, version, employees, months, cons) ==
  JDict([type |-> type, version |-> version, employees |-> employees,
         months |-> months, considerations |-> cons])

AppPackages ==
  { PackageOf(JStr(CONFIG_TYPE), JInt(3), JList(<<JStr(<<" ", "a">>), JStr(A), JStr(B)>>),
              JDict(ImportedMonths), JDict(ImportedNotes)),
    PackageOf(JStr(CONFIG_TYPE), JInt(2), JList(<<JStr(B)>>), JDict(EmptyDict), JNull),
    PackageOf(JStr("outro"), JInt(3), JList(<<JStr(A)>>), JDict(EmptyDict), JDict(EmptyDict)),
    PackageOf(JStr(CONFIG_TYPE), JInt(3), JList(<<JStr(<<>>)>>), JDict(ImportedMonths), JNull) }

(***************************************************************************)
(* The application: every action is one run of the script, started by one  *)
(* widget event                                                            *)
(***************************************************************************)
\* the widget event that started the latest run, and the message the run
\* showed for it
Event(op, name, date, board) ==
  [op |-> op, name |-> name, date |-> date, board |-> board, msg |-> ""]

Refused(msg) == [op |-> "refused", name |-> <<>>, date |-> "", board |-> <<>>, msg |-> msg]

\* lines 540-557: a session that finds no data files
Init ==
  /\ people = <<>>
  /\ schedule = EmptyDict
  /\ considerations = EmptyDict
  /\ active_year \in YearInputs
  /\ active_month \in MonthInputs
  /\ uploaded = <<>>
  /\ last_event = Event("start", <<>>, "", <<>>)
  /\ runs = 0

\* the run from line 630 on, with the staff list and stores the sidebar left
Run(ppl, sched, cons, year, month, ev, event) ==
  /\ runs < MaxRuns
  /\ people' = ppl
  /\ schedule' = Main(ppl, sched, year, month, ev)
  /\ considerations' = cons
  /\ active_year' = year
  /\ active_month' = month
  /\ last_event' = event
  /\ runs' = runs + 1

\* lines 564-568, 630-633: the year or month input is changed (or nothing is)
SwitchMonth(year, month) ==
  /\ Run(people, schedule, considerations, year, month, NoEvent,
         Event("month", <<>>, "", <<>>))
  /\ UNCHANGED uploaded

\* lines 573-583
AddedNoStrip(ppl, new_person) ==
  IF new_person # <<>> /\ new_person \notin Range(ppl) THEN Append(ppl, new_person) ELSE ppl

AddedAgain(ppl, new_person) ==
  LET p == Strip(new_person)
  IN IF p # <<>> THEN Append(ppl, p) ELSE ppl

Added(ppl, new_person) ==
  LET p == Strip(new_person)
  IN IF p # <<>> /\ p \notin Range(ppl) THEN Append(ppl, p) ELSE ppl

AddMember(new_person) ==
  /\ Run(Added(people, new_person), schedule, considerations, active_year, active_month,
         NoEvent, Event("add", new_person, "", <<>>))
  /\ UNCHANGED uploaded

\* lines 585-591
Removed(ppl, rem) == SelectSeq(ppl, LAMBDA x : x # rem)

RemoveMember(rem) ==
  /\ rem \in Range(people)
  /\ Run(Removed(people, rem), schedule, considerations, active_year, active_month,
         NoEvent, Event("remove", rem, "", <<>>))
  /\ UNCHANGED uploaded

\* lines 613-619: a file is put into the uploader; it is validated on this
\* and on every later run, and refused with a message when invalid
Upload(pkg) ==
  /\ uploaded' = <<pkg>>
  /\ Run(people, schedule, considerations, active_year, active_month, NoEvent,
         IF validate_import_package(pkg).ok THEN Event("upload", <<>>, "", <<>>)
         ELSE Refused(validate_import_package(pkg).msg))

\* lines 620-624: "Aplicar Importacao" on a validated file, then the rerun
ApplyImport ==
  /\ uploaded # <<>>
  /\ validate_import_package(uploaded[1]).ok
  /\ LET new == apply_import_package(uploaded[1])
     IN Run(new.people, new.schedule, new.considerations, active_year, active_month,
            NoEvent, Event("import", <<>>, "", <<>>))
  /\ UNCHANGED uploaded

\* the day was rendered by the run before: its widgets exist
Rendered(d) ==
  /\ people # <<>>
  /\ MonthKey(active_year, active_month) \in DOMAIN schedule
  /\ d \in DOMAIN schedule[MonthKey(active_year, active_month)]

\* lines 689-696: the "Sabado feriado" checkbox of one Saturday is flipped
ToggleClosed(d) ==
  /\ Rendered(d)
  /\ Run(people, schedule, considerations, active_year, active_month,
         [date |-> d, toggle |-> TRUE, board |-> Untouched],
         Event("toggle", <<>>, d, <<>>))
  /\ UNCHANGED uploaded

\* lines 700-713: names are dragged on the board of one open Saturday
EditDay(d, cols) ==
  /\ Rendered(d)
  /\ schedule[MonthKey(active_year, active_month)][d][META_CLOSED_KEY] # TRUE
  /\ Run(people, schedule, considerations, active_year, active_month,
         [date |-> d, toggle |-> FALSE, board |-> Arranged(cols)],
         Event("edit", <<>>, d, <<>>))
  /\ UNCHANGED uploaded

Next ==
  \/ \E y \in YearInputs, m \in MonthInputs : SwitchMonth(y, m)
  \/ \E n \in NewPersonInputs : AddMember(n)
  \/ \E n \in Range(people) : RemoveMember(n)
  \/ \E pkg \in AppPackages : Upload(pkg)
  \/ ApplyImport
  \/ \E d \in TouchedDates(active_year, active_month) : ToggleClosed(d)
  \/ \E d \in TouchedDates(active_year, active_month), cols \in AppBoards : EditDay(d, cols)

Spec == Init /\ [][Next]_vars

(***************************************************************************)
(* ensure_month_schedule on its own: any staff list, any prior content of  *)
(* the month record, a valid or an invalid month, called up to MaxCalls    *)
(* times in a row                                                          *)
(***************************************************************************)
MaxCalls == 2

MaxListLen == 2

\* staff lists: no name twice (lines 576 and 377-382 keep it so)
MemberLists == { <<>>, <<A>>, <<B>>, <<A, B>>, <<B, A>> }

\* status lists found in a stored day: A may be a member, C never is
StoredLists == SeqsUpTo({A, C}, MaxListLen)

Restrict(f, keys) == [k \in DOMAIN f \cap keys |-> f[k]]

\* the keys a stored day record may hold
StoredKeySets ==
  { StatusSet \cup {META_CLOSED_KEY},
    StatusSet,
    {DEFAULT_STATUS, "Laboratorio", META_CLOSED_KEY},
    {DEFAULT_STATUS} }

StoredDays ==
  { Restrict(DayOf(closed, on_default, on_lab), keys) :
      closed \in BOOLEAN, on_default \in StoredLists, on_lab \in StoredLists,
      keys \in StoredKeySets }

\* a date of the month that is no Saturday of it
StaleDate(year, month) ==
  IF ValidMonth(month) /\ Weekday(year, month, 1) = 5
    THEN iso([year |-> year, month |-> month, day |-> 2])
    ELSE iso([year |-> year, month |-> month, day |-> 1])

StoredMonths(year, month) ==
  LET stale == StaleDate(year, month) :> DayOf(FALSE, <<A>>, <<C>>)
      first == iso(get_saturdays(year, month)[1])
  IN IF ~ValidMonth(month) THEN { EmptyDict, stale }
     ELSE { EmptyDict, stale }
          \cup { first :> day : day \in StoredDays }
          \cup { (first :> day) @@ stale : day \in StoredDays }

\* another month of the store, which the call is not for: an open day with
\* a non-member and a member named twice, and a closed day, no Saturday,
\* that holds a name
OtherMonth ==
  "2024-01" :> (("2024-01-06" :> DayOf(FALSE, <<C, A>>, <<A>>))
                @@ ("2024-01-07" :> DayOf(TRUE, <<A>>, <<>>)))

\* the store before the call: empty, the month alone, or beside OtherMonth
PriorStores(year, month) ==
  { EmptyDict, OtherMonth }
  \cup { MonthKey(year, month) :> rec : rec \in StoredMonths(year, month) }
  \cup { (MonthKey(year, month) :> rec) @@ OtherMonth : rec \in StoredMonths(year, month) }

EnsureMonths == { 2, 13 }

\* a caller's list with a name twice, besides the staff lists
EnsurePeople == MemberLists \cup { <<A, A>> }

EnsureInit ==
  /\ people \in EnsurePeople
  /\ active_year \in CalendarYears
  /\ active_month \in EnsureMonths
  /\ schedule \in PriorStores(active_year, active_month)
  /\ considerations = EmptyDict
  /\ uploaded = <<>>
  /\ last_event = Event("start", <<>>, "", <<>>)
  /\ runs = 0

\* lines 85-125, the call returns
ReconcileMonth ==
  /\ runs < MaxCalls
  /\ ValidMonth(active_month)
  /\ schedule' = ensure_month_schedule(schedule, active_year, active_month, people).schedule
  /\ last_event' = Event("reconcile", <<>>, "", <<>>)
  /\ runs' = runs + 1
  /\ UNCHANGED <<people, considerations, active_year, active_month, uploaded>>

\* lines 85-90, get_saturdays raises
ReconcileRaises ==
  /\ runs < MaxCalls
  /\ ~ValidMonth(active_month)
  /\ ensure_month_schedule(schedule, active_year, active_month, people).raised
  /\ schedule' = ensure_month_schedule(schedule, active_year, active_month, people).schedule
  /\ last_event' = Event("raised", <<>>, "", <<>>)
  /\ runs' = runs + 1
  /\ UNCHANGED <<people, considerations, active_year, active_month, uploaded>>

EnsureNext == ReconcileMonth \/ ReconcileRaises

SpecEnsure == EnsureInit /\ [][EnsureNext]_vars

(***************************************************************************)
(* Edit ingestion on its own: any staff list, any board                    *)
(***************************************************************************)
MaxCols == 2

\* items of a raw column: a member or not, a blank string, no string at all
\* (a number, null)
RawItemLists ==
  SeqsUpTo({ JStr(A), JStr(C), JStr(<<" ">>) }, 2)
  \cup { <<JInt(7)>>, <<JInt(7), JStr(A)>>, <<JStr(A), JNull>> }

RawHeaders == { JStr(DEFAULT_STATUS), JStr("Laboratorio"), JStr("Outro") }

\* with both keys, without "items", without "header"
RawColumns ==
  { Column(h, items) : h \in RawHeaders, items \in RawItemLists }
  \cup { [header |-> h] : h \in RawHeaders }
  \cup { [items |-> items] : items \in { <<JStr(A)>>, <<JStr(A), JStr(C)>> } }

RawBoards == SeqsUpTo(RawColumns, MaxCols)

\* the Saturday whose board is dragged: the first of the month
FirstSaturday(year, month) == iso(get_saturdays(year, month)[1])

\* the month as line 638 leaves it on its first activation
IngestInit ==
  /\ people \in MemberLists
  /\ active_year \in CalendarYears
  /\ active_month = CHOOSE m \in MonthInputs : \A n \in MonthInputs : m <= n
  /\ schedule = ensure_month_schedule(EmptyDict, active_year, active_month, people).schedule
  /\ considerations = EmptyDict
  /\ uploaded = <<>>
  /\ last_event = Event("start", <<>>, "", <<>>)
  /\ runs = 0

\* lines 709-713
Ingested(day_map, sorted_board, ppl) ==
  IF sorted_board # <<>>
    THEN sanitize_day(Put(sortables_to_day_map(sorted_board), META_CLOSED_KEY, FALSE), ppl)
    ELSE day_map

\* one board per behaviour
IngestBoard ==
  /\ last_event.op = "start"
  /\ \E cols \in RawBoards :
       /\ schedule' = [schedule EXCEPT
                         ![MonthKey(active_year, active_month)][FirstSaturday(active_year, active_month)] =
                           Ingested(@, cols, people)]
       /\ last_event' = Event("edit", <<>>, FirstSaturday(active_year, active_month), cols)
  /\ runs' = runs + 1
  /\ UNCHANGED <<people, considerations, active_year, active_month, uploaded>>

IngestNext == IngestBoard

SpecIngest == IngestInit /\ [][IngestNext]_vars

(***************************************************************************)
(* The import handler on its own (lines 613-626): any package, applied as  *)
(* soon as it validates                                                    *)
(***************************************************************************)
MaxEmployees == 2

Absent == [kind |-> "absent", val |-> FALSE]

\* a JSON object of the given fields, a field of kind "absent" left out
ObjectOf(fields) == JDict([k \in { x \in DOMAIN fields : fields[x].kind # "absent" } |-> fields[k]])

EmployeeItems == { JStr(A), JStr(<<" ", "a">>), JStr(B), JStr(<<>>), JInt(7) }

PackageTypes == { Absent, JStr(CONFIG_TYPE), JStr("outro") }

PackageVersions == { Absent, JInt(CONFIG_EXPORT_VERSION), JBool(TRUE), JStr("3") }

PackageEmployees ==
  { Absent, JStr("a") } \cup { JList(l) : l \in SeqsUpTo(EmployeeItems, MaxEmployees) }

PackageMonths == { Absent, JList(<<>>), JDict(EmptyDict), JDict(ImportedMonths) }

PackageConsiderations ==
  { Absent, JNull, JList(<<>>), JDict(EmptyDict), JDict(ImportedNotes) }

Packages ==
  { JList(<<>>), JStr("x") }
  \cup { ObjectOf([type |-> t, version |-> v, employees |-> e, months |-> m,
                   considerations |-> c]) :
           t \in PackageTypes, v \in PackageVersions, e \in PackageEmployees,
           m \in PackageMonths, c \in PackageConsiderations }

\* the three stores the upload finds
StoresBefore ==
  { [people |-> <<>>, schedule |-> EmptyDict, considerations |-> EmptyDict],
    [people |-> <<A, C>>,
     schedule |-> ensure_month_schedule(EmptyDict, 2024, 3, <<A, C>>).schedule,
     considerations |-> ("2024-03" :> << Note("n0", <<"y">>) >>)] }

ImportInit ==
  /\ \E st \in StoresBefore :
       /\ people = st.people
       /\ schedule = st.schedule
       /\ considerations = st.considerations
  /\ active_year = 2024
  /\ active_month = 3
  /\ uploaded = <<>>
  /\ last_event = Event("start", <<>>, "", <<>>)
  /\ runs = 0

\* lines 613-619: one upload per behaviour; the file does not validate
ImportRefused ==
  /\ uploaded = <<>>
  /\ \E pkg \in Packages :
       /\ ~validate_import_package(pkg).ok
       /\ uploaded' = <<pkg>>
       /\ last_event' = Refused(validate_import_package(pkg).msg)
  /\ runs' = runs + 1
  /\ UNCHANGED <<people, schedule, considerations, active_year, active_month>>

\* lines 613-622: the file validates and "Aplicar Importacao" is pressed
ImportApplied ==
  /\ uploaded = <<>>
  /\ \E pkg \in Packages :
       /\ validate_import_package(pkg).ok
       /\ uploaded' = <<pkg>>
       /\ LET new == apply_import_package(pkg)
          IN /\ people' = new.people
             /\ schedule' = new.schedule
             /\ considerations' = new.considerations
  /\ last_event' = Event("import", <<>>, "", <<>>)
  /\ runs' = runs + 1
  /\ UNCHANGED <<active_year, active_month>>

ImportNext == ImportRefused \/ ImportApplied

SpecImport == ImportInit /\ [][ImportNext]_vars

(***************************************************************************)
(* build_month_summary on its own (line 735): any record of the active     *)
(* month, a staff list that got past the stop of line 657                  *)
(***************************************************************************)
AB == <<"a", "b">>

\* staff lists the summary is built for: never empty
SummaryPeople == { <<A>>, <<A, B>>, <<B, A>>, <<B, AB, A>> }

\* status lists of a stored day: members and the non-member C
SummaryLists == SeqsUpTo({A, B, C}, MaxListLen)

SummaryDays ==
  { DayOf(closed, on_default, on_lab) :
      closed \in BOOLEAN, on_default \in SummaryLists, on_lab \in SummaryLists }

\* what the record holds for the second Saturday, if anything
SecondDays ==
  { DayOf(FALSE, <<B>>, <<A>>),
    DayOf(TRUE, <<A, B>>, <<>>),
    Restrict(DayOf(FALSE, <<A>>, <<>>), {DEFAULT_STATUS}) }

SummaryMonths(year, month) ==
  LET sats == get_saturdays(year, month)
      stale == StaleDate(year, month) :> DayOf(FALSE, <<A>>, <<B>>)
  IN { (iso(sats[1]) :> day) @@ stale : day \in SummaryDays }
     \cup { (iso(sats[1]) :> day) @@ (iso(sats[2]) :> second) :
              day \in SummaryDays, second \in SecondDays }

\* the run's outcome: the rows shown
Summarised(rows) ==
  [op |-> "summary", name |-> <<>>, date |-> "", board |-> <<>>, msg |-> "", rows |-> rows]

SummaryInit ==
  /\ people \in SummaryPeople
  /\ active_year \in CalendarYears
  /\ active_month = CHOOSE m \in MonthInputs : \A n \in MonthInputs : m <= n
  /\ \E rec \in SummaryMonths(active_year, active_month) :
       schedule = (MonthKey(active_year, active_month) :> rec)
  /\ considerations = EmptyDict
  /\ uploaded = <<>>
  /\ last_event = Event("start", <<>>, "", <<>>)
  /\ runs = 0

\* line 735
Summarise ==
  /\ last_event.op = "start"
  /\ last_event' = Summarised(build_month_summary(
                      get_month_schedule(schedule, active_year, active_month),
                      get_saturdays(active_year, active_month), people))
  /\ runs' = runs + 1
  /\ UNCHANGED <<people, schedule, considerations, active_year, active_month, uploaded>>

SummaryNext == Summarise

SpecSummary == SummaryInit /\ [][SummaryNext]_vars

(***************************************************************************)
(* The considerations form and list on their own (lines 764-795): any      *)
(* active month, with or without notes in the store                        *)
(***************************************************************************)
MaxNotes == 2

\* what the user types into the form
NoteTexts == { <<>>, <<" ">>, <<"x">>, <<" ", "y", " ">> }

\* identifiers uuid.uuid4() can give
Uuids == { "u1", "u2", "u3", "u4" }

\* the considerations store the run finds: empty, or notes for one month
NoteStores ==
  { EmptyDict,
    "2024-02" :> <<>>,
    "2024-02" :> << Note("n1", <<"x">>) >>,
    "2024-03" :> << Note("n0", <<"y">>), Note("n1", <<"x">>) >> }

NoteIds(cons_months) ==
  UNION { { cons_months[mk][i].id : i \in 1..Len(cons_months[mk]) } : mk \in DOMAIN cons_months }

\* the submission, and what the run did with it
Submitted(cons_text, outcome) ==
  [op |-> "note", name |-> cons_text, date |-> "", board |-> <<>>, msg |-> outcome]

\* a run that reached the form: a month with Saturdays and a staff list
NotesInit ==
  /\ people \in { <<A>>, <<A, B>> }
  /\ active_year \in YearInputs
  /\ active_month \in MonthInputs
  /\ schedule = ensure_month_schedule(EmptyDict, active_year, active_month, people).schedule
  /\ considerations \in NoteStores
  /\ uploaded = <<>>
  /\ last_event = Event("start", <<>>, "", <<>>)
  /\ runs = 0

\* lines 764-776
SubmitConsideration(cons_text) ==
  /\ runs < MaxNotes
  /\ \E uuid \in Uuids \ NoteIds(considerations) :
       LET r == add_consideration(considerations, MonthKey(active_year, active_month),
                                  cons_text, uuid)
       IN /\ considerations' = r.considerations
          /\ last_event' = Submitted(cons_text, r.outcome)
  /\ runs' = runs + 1
  /\ UNCHANGED <<people, schedule, active_year, active_month, uploaded>>

\* lines 780-795
RemoveConsideration(id) ==
  /\ runs < MaxNotes
  /\ MonthKey(active_year, active_month) \in DOMAIN considerations
  /\ considerations' = remove_consideration(considerations,
                                            MonthKey(active_year, active_month), id)
  /\ last_event' = Event("unnote", <<>>, "", <<>>)
  /\ runs' = runs + 1
  /\ UNCHANGED <<people, schedule, active_year, active_month, uploaded>>

NotesNext ==
  \/ \E cons_text \in NoteTexts : SubmitConsideration(cons_text)
  \/ \E id \in NoteIds(considerations) : RemoveConsideration(id)

SpecNotes == NotesInit /\ [][NotesNext]_vars

(***************************************************************************)
(* Properties                                                              *)
(***************************************************************************)
ActiveKey == MonthKey(active_year, active_month)

\* how often a name stands in the status lists of a day
TimesListed(day, name) ==
  Cardinality({ pos \in UNION { { <<stt, i>> : i \in 1..Len(day[stt]) } : stt \in StatusSet } :
                 day[pos[1]][pos[2]] = name })

NamesListed(day) == UNION { Range(day[stt]) : stt \in StatusSet }

\* the status lists of the day hold every member once, and nobody else
IsPartition(day, ppl) ==
  /\ StatusSet \subseteq DOMAIN day
  /\ NamesListed(day) = Range(ppl)
  /\ \A p \in Range(ppl) : TimesListed(day, p) = 1

AllListsEmpty(day) == \A stt \in StatusSet : stt \in DOMAIN day /\ day[stt] = <<>>

NoDuplicates(lst) == \A i, j \in 1..Len(lst) : lst[i] = lst[j] => i = j

\* C1 (as specified): after ensure_month_schedule has run for a month with
\* a duplicate-free staff list, every open day of that month holds every
\* member in exactly one status list exactly once and no other name,
\* whatever the month record held before.
C1_PartitionAfterReconcile ==
  (last_event.op = "reconcile" /\ NoDuplicates(people)) =>
    \A d \in DOMAIN schedule[ActiveKey] :
      schedule[ActiveKey][d][META_CLOSED_KEY] # TRUE => IsPartition(schedule[ActiveKey][d], people)

\* C2 (as specified): after ensure_month_schedule has run for a month, every
\* day of that month whose closed flag is true has every status list empty,
\* whatever the day record held before.
C2_ClosedDaysEmptyAfterReconcile ==
  last_event.op = "reconcile" =>
    \A d \in DOMAIN schedule[ActiveKey] :
      schedule[ActiveKey][d][META_CLOSED_KEY] = TRUE => AllListsEmpty(schedule[ActiveKey][d])

\* C3 (as specified): after a member is removed and the run has reconciled,
\* the removed name stands in no status list of any date of any month of
\* the schedule store.
C3_RemovalCascadesEverywhere ==
  last_event.op = "remove" =>
    \A mk \in DOMAIN schedule : \A d \in DOMAIN schedule[mk] :
      \A stt \in DOMAIN schedule[mk][d] \cap StatusSet :
        last_event.name \notin Range(schedule[mk][d][stt])

\* C4: a second call of ensure_month_schedule with the same year, month and
\* staff list leaves the store exactly as the first call left it (same
\* dates, closed flags and names in the same order), also when the call
\* raises.
C4_ReconcileIdempotent ==
  [][ (last_event.op \in {"reconcile", "raised"} /\ runs' = runs + 1)
        => schedule' = schedule ]_vars

\* the second call has returned, on a month whose stored day lacked a
\* member and held a stale name
C4_Witness ==
  /\ last_event.op = "reconcile"
  /\ runs = 2
  /\ people = <<A, B>>
  /\ \E d \in DOMAIN schedule[ActiveKey] :
       /\ schedule[ActiveKey][d][DEFAULT_STATUS] = <<B>>
       /\ schedule[ActiveKey][d]["Laboratorio"] = <<A>>

\* C5 (as specified): a call of ensure_month_schedule with a month outside
\* 1..12 fails and leaves the schedule store exactly as it was, no month key
\* added, removed or changed.
C5_FailedCallLeavesStore ==
  [][ last_event'.op = "raised" => schedule' = schedule ]_vars

\* the names a column lists: its items that are strings
ColumnNames(col) ==
  { it.val : it \in { x \in Range(DictGet(col, "items", <<>>)) : x.kind = "str" } }

\* the columns whose header is the label of a status
KeptColumns(cols) ==
  { i \in 1..Len(cols) :
      "header" \in DOMAIN cols[i] /\ cols[i].header \in { JStr(stt) : stt \in StatusSet } }

\* C6: whatever board the drag-and-drop widget hands back (unknown headers,
\* missing keys, blank or non-string items, names of non-members, a member
\* in several columns or in none), the day stored from it is open, holds
\* every member in exactly one status list exactly once and nobody else, and
\* every member that no column with a status header lists is on the default
\* status.
C6_IngestionConsistent ==
  last_event.op = "edit" =>
    LET day == schedule[ActiveKey][last_event.date]
        cols == last_event.board
        listed == UNION { ColumnNames(cols[i]) : i \in KeptColumns(cols) }
    IN /\ day[META_CLOSED_KEY] = FALSE
       /\ IsPartition(day, people)
       /\ \A p \in Range(people) : p \notin listed => p \in Range(day[DEFAULT_STATUS])

\* a board that lists a member twice in one column and once more under an
\* unknown header, and leaves the other member out
C6_Witness ==
  /\ last_event.op = "edit"
  /\ people = <<A, B>>
  /\ last_event.board = << Column(JStr("Laboratorio"), <<JStr(A), JStr(A)>>),
                           Column(JStr("Outro"), <<JStr(A)>>) >>
  /\ schedule[ActiveKey][last_event.date]["Laboratorio"] = <<A>>
  /\ schedule[ActiveKey][last_event.date][DEFAULT_STATUS] = <<B>>

\* C7: the run in which the checkbox of a Saturday is flipped leaves that
\* day either closed with every status list empty, or (reopened) open with
\* the whole staff list on the default status in staff-list order and every
\* other status empty.
C7_ToggleForgetsAssignments ==
  last_event.op = "toggle" =>
    LET day == schedule[ActiveKey][last_event.date]
    IN IF day[META_CLOSED_KEY] = TRUE
         THEN AllListsEmpty(day)
         ELSE /\ day[DEFAULT_STATUS] = people
              /\ \A stt \in StatusSet \ {DEFAULT_STATUS} : day[stt] = <<>>

\* a Saturday has been closed and is reopened, with two members
C7_Witness ==
  /\ last_event.op = "toggle"
  /\ Len(people) = 2
  /\ schedule[ActiveKey][last_event.date][META_CLOSED_KEY] = FALSE

\* the packages that are to be refused; a considerations field of JSON null
\* is read as an absent one
MustBeRefused(pkg) ==
  \/ pkg.kind # "dict"
  \/ /\ pkg.kind = "dict"
     /\ \/ JGet(pkg, "type", Absent) # JStr(CONFIG_TYPE)
        \/ JGet(pkg, "version", Absent).kind # "int"
        \/ JGet(pkg, "employees", Absent).kind # "list"
        \/ /\ JGet(pkg, "employees", Absent).kind = "list"
           /\ \E it \in Range(JGet(pkg, "employees", Absent).val) :
                it.kind # "str" \/ Strip(it.val) = <<>>
        \/ JGet(pkg, "months", Absent).kind # "dict"
        \/ JGet(pkg, "considerations", Absent).kind \notin {"absent", "null", "dict"}

\* C8 (as specified): a package that is no mapping, lacks the type tag or has
\* another, lacks an integer version, has employees that is not a list of
\* non-blank strings, months that is no mapping, or considerations that is
\* present and no mapping, is refused with a non-empty reason, and the
\* staff list, the schedule store and the considerations store stay as they
\* were.
C8_RejectedImportLeavesState ==
  [][ (uploaded = <<>> /\ uploaded' # <<>> /\ MustBeRefused(uploaded'[1]))
        => /\ last_event'.op = "refused"
           /\ last_event'.msg # ""
           /\ people' = people
           /\ schedule' = schedule
           /\ considerations' = considerations ]_vars

\* C9: in every state the application reaches, the export package of the
\* three stores validates, and applying it gives back the same staff list
\* (same names, same order), the same schedule store and the same
\* considerations.
C9_ExportImportRoundTrip ==
  LET pkg == build_export_package(people, schedule, considerations)
      new == apply_import_package(pkg)
  IN /\ validate_import_package(pkg).ok
     /\ new.people = people
     /\ new.schedule = schedule
     /\ new.considerations = considerations

\* two members, two months and a note in the stores, after an edit
C9_Witness ==
  /\ last_event.op = "edit"
  /\ Len(people) = 2
  /\ Cardinality(DOMAIN schedule) >= 2
  /\ considerations # EmptyDict

\* lst holds the names of src once each, ordered by their first place in src
FirstSeenOrder(lst, src) ==
  /\ NoDuplicates(lst)
  /\ Range(lst) = Range(src)
  /\ \A i, j \in 1..Len(lst) :
       i < j => (CHOOSE k \in 1..Len(src) : src[k] = lst[i] /\ \A m \in 1..(k - 1) : src[m] # lst[i])
                < (CHOOSE k \in 1..Len(src) : src[k] = lst[j] /\ \A m \in 1..(k - 1) : src[m] # lst[j])

\* what the package carries: its months, and its considerations when they
\* are a mapping
CarriedMonths(pkg) == JGet(pkg, "months", Absent).val

CarriedNotes(pkg) ==
  IF JGet(pkg, "considerations", Absent).kind = "dict"
    THEN JGet(pkg, "considerations", Absent).val
    ELSE EmptyDict

\* C10 (as specified): after a valid package is applied the staff list is the
\* package's employees deduplicated in first-seen order, the schedule store
\* is the package's months and the considerations store is the package's
\* considerations (empty when absent).
C10_ImportReplacesVerbatim ==
  last_event.op = "import" =>
    /\ FirstSeenOrder(people, Vals(JGet(uploaded[1], "employees", Absent).val))
    /\ schedule = CarriedMonths(uploaded[1])
    /\ considerations = CarriedNotes(uploaded[1])

\* C10 (amended): after a valid package is applied the staff list is the
\* package's employees, each trimmed of surrounding whitespace, deduplicated
\* in first-seen order; the schedule store is the package's months and the
\* considerations store is the package's considerations (empty when absent
\* or null); nothing of the previous stores is kept.
C10_ImportReplacesTrimmed ==
  last_event.op = "import" =>
    LET employees == JGet(uploaded[1], "employees", Absent).val
    IN /\ FirstSeenOrder(people, [i \in 1..Len(employees) |-> Strip(employees[i].val)])
       /\ schedule = CarriedMonths(uploaded[1])
       /\ considerations = CarriedNotes(uploaded[1])

\* a package naming one member twice, once with a leading blank, and
\* carrying months but no considerations, has replaced the stores
C10_Witness ==
  /\ last_event.op = "import"
  /\ JGet(uploaded[1], "employees", Absent) = JList(<<JStr(<<" ", "a">>), JStr(A)>>)
  /\ people = <<A>>
  /\ schedule = ImportedMonths
  /\ "considerations" \notin DOMAIN uploaded[1].val
  /\ considerations = EmptyDict

\* the Saturdays of the active month whose stored record is not closed
OpenSaturdays ==
  LET sats == get_saturdays(active_year, active_month)
  IN { d \in { iso(sats[i]) : i \in 1..Len(sats) } \cap DOMAIN schedule[ActiveKey] :
         DictGet(schedule[ActiveKey][d], META_CLOSED_KEY, FALSE) # TRUE }

\* the places where an open Saturday of the month lists the name under stt
Listings(name, stt) ==
  { pos \in UNION { { <<d, i>> : i \in 1..Len(DictGet(schedule[ActiveKey][d], stt, <<>>)) } :
                    d \in OpenSaturdays } :
      schedule[ActiveKey][pos[1]][stt][pos[2]] = name }

\* C11: every row of the summary is a member's, and each of its counts is
\* the number of times an open Saturday of the month lists that member
\* under that status: a closed date adds nothing whatever its lists hold,
\* nor does a date that is no Saturday of the month, and a name that is no
\* member is counted nowhere.
C11_SummarySkipsClosedDays ==
  last_event.op = "summary" =>
    \A i \in 1..Len(last_event.rows) :
      /\ last_event.rows[i].Colaborador \in Range(people)
      /\ \A stt \in StatusSet :
           last_event.rows[i].counts[stt] =
             Cardinality(Listings(last_event.rows[i].Colaborador, stt))

\* a closed Saturday lists the member a, an open one lists the non-member c
\* and a, and a is counted once
C11_Witness ==
  /\ last_event.op = "summary"
  /\ \E d \in DOMAIN schedule[ActiveKey] \ OpenSaturdays :
       /\ schedule[ActiveKey][d][META_CLOSED_KEY] = TRUE
       /\ A \in Range(schedule[ActiveKey][d][DEFAULT_STATUS])
  /\ \E d \in OpenSaturdays : schedule[ActiveKey][d][DEFAULT_STATUS] = <<C, A>>
  /\ \E i \in 1..Len(last_event.rows) :
       /\ last_event.rows[i].Colaborador = A
       /\ Total(last_event.rows[i]) = 1

\* C12: the summary has exactly one row per member, and its rows stand in
\* descending order of their total over the statuses, rows of equal total
\* in ascending order of the name; a member listed on no day has a row of
\* zeros.
C12_SummaryRowsSorted ==
  last_event.op = "summary" =>
    LET rows == last_event.rows
    IN /\ Len(rows) = Cardinality(Range(people))
       /\ { rows[i].Colaborador : i \in 1..Len(rows) } = Range(people)
       /\ \A i, j \in 1..Len(rows) :
            i < j => \/ Total(rows[i]) > Total(rows[j])
                     \/ /\ Total(rows[i]) = Total(rows[j])
                        /\ StrLess(rows[i].Colaborador, rows[j].Colaborador)
       /\ \A i \in 1..Len(rows) :
            (\A stt \in StatusSet : Listings(rows[i].Colaborador, stt) = {})
              => \A stt \in StatusSet : rows[i].counts[stt] = 0

\* three members registered as b, ab, a: a is listed and comes first, the
\* other two are listed nowhere and follow by name
C12_Witness ==
  /\ last_event.op = "summary"
  /\ people = <<B, AB, A>>
  /\ Len(last_event.rows) = 3
  /\ last_event.rows[1].Colaborador = A
  /\ last_event.rows[2].Colaborador = AB
  /\ last_event.rows[3].Colaborador = B
  /\ Total(last_event.rows[1]) > 0
  /\ Total(last_event.rows[2]) = 0

\* the Saturdays of the active month, as date keys
SaturdayKeys ==
  LET sats == get_saturdays(active_year, active_month)
  IN { iso(sats[i]) : i \in 1..Len(sats) }

\* the record of the active month before a call; none is an empty one
MonthBefore == DictGet(schedule, ActiveKey, EmptyDict)

\* C13: a call of ensure_month_schedule that returns leaves the month record
\* with exactly the Saturdays of the month as its date keys (a stored date
\* that is no such Saturday is gone), and every Saturday that had no record
\* is an open day with the whole staff list on the default status, in
\* staff-list order, and every other status empty.
C13_DatesFollowCalendar ==
  [][ last_event'.op = "reconcile" =>
        /\ DOMAIN schedule'[ActiveKey] = SaturdayKeys
        /\ \A d \in SaturdayKeys \ DOMAIN MonthBefore :
             /\ DOMAIN schedule'[ActiveKey][d] = StatusSet \cup {META_CLOSED_KEY}
             /\ schedule'[ActiveKey][d][META_CLOSED_KEY] = FALSE
             /\ schedule'[ActiveKey][d][DEFAULT_STATUS] = people
             /\ \A stt \in StatusSet \ {DEFAULT_STATUS} :
                  schedule'[ActiveKey][d][stt] = <<>> ]_vars

\* after the first call: the first Saturday keeps what was stored for it,
\* no stored stale date is left, and a Saturday without record has the two
\* members on the default status
C13_Witness ==
  /\ last_event.op = "reconcile"
  /\ runs = 1
  /\ people = <<B, A>>
  /\ DOMAIN schedule[ActiveKey] = SaturdayKeys
  /\ \E d \in SaturdayKeys : schedule[ActiveKey][d]["Laboratorio"] = <<A>>
  /\ \E d \in SaturdayKeys :
       /\ schedule[ActiveKey][d][DEFAULT_STATUS] = <<B, A>>
       /\ schedule[ActiveKey][d]["Laboratorio"] = <<>>

\* the notes the store holds for a month; none for a month without key
NotesOf(cons_months, mk) == DictGet(cons_months, mk, <<>>)

\* C14 (as specified): in any active month, with or without notes already,
\* a submission whose text is not blank stores exactly one new note, with
\* the trimmed text, at the end of that month's list and leaves the notes of
\* every other month as they were; a submission of blank text stores
\* nothing.
C14_ConsiderationStored ==
  [][ last_event'.op = "note" =>
        IF Strip(last_event'.name) = <<>>
          THEN considerations' = considerations
          ELSE /\ Len(NotesOf(considerations', ActiveKey)) = Len(NotesOf(considerations, ActiveKey)) + 1
               /\ SubSeq(NotesOf(considerations', ActiveKey), 1, Len(NotesOf(considerations, ActiveKey)))
                    = NotesOf(considerations, ActiveKey)
               /\ NotesOf(considerations', ActiveKey)[Len(NotesOf(considerations', ActiveKey))].text
                    = Strip(last_event'.name)
               /\ \A mk \in (DOMAIN considerations \cup DOMAIN considerations') \ {ActiveKey} :
                    NotesOf(considerations', mk) = NotesOf(considerations, mk) ]_vars

\* C15: a month key that is in the schedule store is still in it after any
\* run that is not the one applying an import (member added or removed,
\* month switched, file put into the uploader, checkbox flipped, board
\* edited), and every run leaves the key of its active month in the store.
C15_MonthKeysPersist ==
  [][ /\ ActiveKey' \in DOMAIN schedule'
      /\ last_event'.op # "import" => DOMAIN schedule \subseteq DOMAIN schedule' ]_vars

\* both months have been active and no file was ever uploaded: the month
\* that is no longer active is still stored after a removal
C15_Witness ==
  /\ last_event.op = "remove"
  /\ uploaded = <<>>
  /\ DOMAIN schedule = { MonthKey(y, m) : y \in YearInputs, m \in MonthInputs }

\* no name twice, no name that is empty or blank
WellFormedStaff(ppl) ==
  /\ NoDuplicates(ppl)
  /\ \A i \in 1..Len(ppl) : Strip(ppl[i]) # <<>>

\* C16: from the empty staff list of the first run on, every run leaves a
\* staff list with no name twice and no blank name; adding a name that is
\* blank or, trimmed, already on the list leaves the list as it was, any
\* other added name goes, trimmed, to the end, and a removal takes out the
\* removed name and keeps the others in their order.
C16_StaffListWellFormed ==
  [][ /\ WellFormedStaff(people')
      /\ last_event'.op = "add" =>
           IF Strip(last_event'.name) = <<>> \/ Strip(last_event'.name) \in Range(people)
             THEN people' = people
             ELSE people' = Append(people, Strip(last_event'.name))
      /\ last_event'.op = "remove" =>
           /\ last_event'.name \notin Range(people')
           /\ people' = SelectSeq(people, LAMBDA p : p \in Range(people')) ]_vars

\* a and b are registered and " a" is typed: the list stays a, b
C16_Witness ==
  /\ last_event.op = "add"
  /\ last_event.name = <<" ", "a">>
  /\ people = <<A, B>>

\* the dates stored before a call that are still stored after it, and those
\* of them whose record was open, or closed, before
KeptDates == DOMAIN MonthBefore \cap SaturdayKeys

WasClosed(d) == DictGet(MonthBefore[d], META_CLOSED_KEY, FALSE) = TRUE

\* the list a stored day has for a status; none is an empty one
ListBefore(d, stt) == DictGet(MonthBefore[d], stt, <<>>)

\* C17 (as specified): for every stored open day and duplicate-free staff
\* list, a returning call of ensure_month_schedule leaves in every status
\* of the day the list that sanitize_day makes of the stored day: the same
\* names in the same order.
C17_SameRepairOnBothPaths ==
  [][ (last_event'.op = "reconcile" /\ NoDuplicates(people)) =>
        \A d \in KeptDates :
          ~WasClosed(d) =>
            \A stt \in StatusSet :
              schedule'[ActiveKey][d][stt] = sanitize_day(MonthBefore[d], people)[stt] ]_vars

\* every place of every month but the one now active
IdleMonths(sched, key) == DOMAIN sched \ {key}

\* C18: the run that applies an import leaves every month but the active
\* one exactly as the package holds it, and every later run leaves every
\* month but its active one exactly as it found it, stale names and broken
\* partitions included; the month that is active after a run has been
\* reconciled against the staff list: its dates are the month's Saturdays,
\* its closed days are empty and its open days hold every member once and
\* nobody else.
C18_ImportedMonthsKeptUntilActive ==
  [][ /\ \A mk \in IdleMonths(schedule', ActiveKey') :
           IF last_event'.op = "import"
             THEN /\ mk \in DOMAIN CarriedMonths(uploaded[1])
                  /\ schedule'[mk] = CarriedMonths(uploaded[1])[mk]
             ELSE /\ mk \in DOMAIN schedule
                  /\ schedule'[mk] = schedule[mk]
      /\ \A d \in DOMAIN schedule'[ActiveKey'] :
           IF schedule'[ActiveKey'][d][META_CLOSED_KEY] = TRUE
             THEN AllListsEmpty(schedule'[ActiveKey'][d])
             ELSE IsPartition(schedule'[ActiveKey'][d], people') ]_vars

\* the imported months of February and January were idle after the import;
\* February has now been made active and is repaired, January still holds
\* what the package held
C18_Witness ==
  /\ last_event.op = "month"
  /\ uploaded # <<>>
  /\ ActiveKey = "2024-02"
  /\ people = <<A, B>>
  /\ "2024-01" \in DOMAIN schedule
  /\ schedule["2024-01"] = ImportedMonths["2024-01"]
  /\ schedule["2024-02"] # ImportedMonths["2024-02"]
  /\ schedule["2024-02"]["2024-02-03"][DEFAULT_STATUS] = <<A, B>>

\* the members of the list, in the order the list has them
Retained(lst) == SelectSeq(lst, LAMBDA p : p \in Range(people))

\* the members no status list of the stored day names, in staff-list order
Unlisted(d) ==
  SelectSeq(people, LAMBDA p : \A stt \in StatusSet : p \notin Range(ListBefore(d, stt)))

\* C19: for every stored open day, a returning call of
\* ensure_month_schedule leaves in every status the members the list held,
\* in the order it held them, and on the default status, after them, the
\* members that no list of the day held, in staff-list order.
C19_ReconcileKeepsOrder ==
  [][ last_event'.op = "reconcile" =>
        \A d \in KeptDates :
          ~WasClosed(d) =>
            /\ \A stt \in StatusSet \ {DEFAULT_STATUS} :
                 schedule'[ActiveKey][d][stt] = Retained(ListBefore(d, stt))
            /\ schedule'[ActiveKey][d][DEFAULT_STATUS] =
                 Retained(ListBefore(d, DEFAULT_STATUS)) \o Unlisted(d) ]_vars

\* the stored day held a on the default status and on Laboratorio; b, on no
\* list, has gone to the end of the default status
C19_Witness ==
  /\ last_event.op = "reconcile"
  /\ runs = 1
  /\ people = <<B, A>>
  /\ \E d \in SaturdayKeys :
       /\ schedule[ActiveKey][d][DEFAULT_STATUS] = <<A, B>>
       /\ schedule[ActiveKey][d]["Laboratorio"] = <<A>>

\* C20: for every date stored before and after a returning call of
\* ensure_month_schedule the closed flag is after the call what it was
\* before (a record without flag counting as open), and on a closed day
\* every status list holds the members it held, in their order.
C20_ReconcileKeepsClosedFlag ==
  [][ last_event'.op = "reconcile" =>
        \A d \in KeptDates :
          /\ (schedule'[ActiveKey][d][META_CLOSED_KEY] = TRUE) = WasClosed(d)
          /\ WasClosed(d) =>
               \A stt \in StatusSet :
                 schedule'[ActiveKey][d][stt] = Retained(ListBefore(d, stt)) ]_vars

\* a closed day that held a member and a non-member is still closed and
\* holds the member
C20_Witness ==
  /\ last_event.op = "reconcile"
  /\ runs = 1
  /\ people = <<A>>
  /\ \E d \in SaturdayKeys :
       /\ schedule[ActiveKey][d][META_CLOSED_KEY] = TRUE
       /\ schedule[ActiveKey][d]["Laboratorio"] = <<A>>

\* C21: a call of ensure_month_schedule, returning or raising, leaves every
\* month key of the store but the one it is called for as it was: none
\* added, none removed, no day record under it added, removed or changed.
C21_ReconcileIsLocal ==
  [][ last_event'.op \in {"reconcile", "raised"} =>
        /\ DOMAIN schedule' \ {ActiveKey} = DOMAIN schedule \ {ActiveKey}
        /\ \A mk \in DOMAIN schedule \ {ActiveKey} : schedule'[mk] = schedule[mk] ]_vars

\* the call has repaired its month, whose stored day held the non-member c,
\* while the other month still holds c, a member twice and a closed day
\* with a name
C21_Witness ==
  /\ last_event.op = "reconcile"
  /\ runs = 1
  /\ people = <<A, B>>
  /\ DOMAIN schedule = { ActiveKey, "2024-01" }
  /\ schedule["2024-01"] = OtherMonth["2024-01"]
  /\ \E d \in SaturdayKeys :
       /\ schedule[ActiveKey][d][DEFAULT_STATUS] = <<A, B>>
       /\ schedule[ActiveKey][d]["Laboratorio"] = <<>>
  /\ \E d \in SaturdayKeys : schedule[ActiveKey][d]["Laboratorio"] = <<A>>

\* C22: after every run of the script (members added and removed, months
\* switched, checkboxes flipped, boards edited, validated packages
\* imported) the stored record of the active month has the month's
\* Saturdays as its dates, and each of them is either closed with every
\* status list empty or open with every member in exactly one status list
\* exactly once and nobody else.
C22_ActiveMonthConsistent ==
  runs > 0 =>
    /\ ActiveKey \in DOMAIN schedule
    /\ DOMAIN schedule[ActiveKey] = SaturdayKeys
    /\ \A d \in SaturdayKeys :
         LET day == schedule[ActiveKey][d]
         IN \/ day[META_CLOSED_KEY] = TRUE /\ AllListsEmpty(day)
            \/ day[META_CLOSED_KEY] = FALSE /\ IsPartition(day, people)

\* a package whose February names a member twice and a non-member and has a
\* closed day with names was imported while February was active; a day has
\* since been closed by its checkbox
C22_Witness ==
  /\ last_event.op = "toggle"
  /\ uploaded # <<>>
  /\ CarriedMonths(uploaded[1]) = ImportedMonths
  /\ "2024-01" \in DOMAIN schedule
  /\ ActiveKey = "2024-02"
  /\ people = <<A, B>>
  /\ schedule[ActiveKey][last_event.date][META_CLOSED_KEY] = TRUE

\* C23: in the summary of every run that shows one, the total of every
\* member over the statuses is the number of Saturdays of the active month
\* that are not closed, and every member has a row.
C23_TotalsMatchCalendar ==
  (runs > 0 /\ people # <<>>) =>
    LET rows == summary_df(people, schedule, active_year, active_month)
    IN /\ { rows[i].Colaborador : i \in 1..Len(rows) } = Range(people)
       /\ \A i \in 1..Len(rows) : Total(rows[i]) = Cardinality(OpenSaturdays)

\* two members, a closed Saturday in the month and an edited board: fewer
\* open Saturdays than Saturdays
C23_Witness ==
  /\ last_event.op = "edit"
  /\ Len(people) = 2
  /\ Cardinality(OpenSaturdays) < Cardinality(SaturdayKeys)
  /\ Cardinality(OpenSaturdays) > 0

====
